---- MODULE Spec2Model ----
(***************************************************************************)
(* The oxide_image resource of terraform-provider-oxide                    *)
(* (internal/provider/resource_image.go): its schema validators, its       *)
(* Create / Read / Update / Delete / ImportState handlers, the recorded    *)
(* Terraform state of each resource instance and the remote images held    *)
(* by the Oxide API.                                                       *)
(***************************************************************************)
EXTENDS Integers, Sequences, FiniteSets, TLC

VARIABLES
    client,   \* imageResource.client: the configured API client, or NoClient
    state,    \* per resource instance: the recorded Terraform state
    remote,   \* the images held by the Oxide API, by image number
    nextId,   \* the number the API gives to the next image it creates
    lastOp,   \* what the last operation was given, did and answered
    inflight, \* per resource instance: the request a handler is working on
    meta      \* the provider's last configuration: its inputs and its result

vars == <<client, state, remote, nextId, lastOp, inflight, meta>>

----------------------------------------------------------------------------
(* Bounds *)

\* The API creates at most this many images in one run.
MaxImages == 2

----------------------------------------------------------------------------
(* types.String / types.Int64 / types.Object: null, unknown or known *)

StringNull == [st |-> "null", v |-> ""]
StringUnknown == [st |-> "unknown", v |-> ""]
StringValue(s) == [st |-> "known", v |-> s]

Int64Null == [st |-> "null", v |-> 0]
Int64Unknown == [st |-> "unknown", v |-> 0]
Int64Value(n) == [st |-> "known", v |-> n]

IsNull(a) == a.st = "null"

\* ValueString / ValueInt64 give the zero value for null and unknown.
ValueString(a) == IF a.st = "known" THEN a.v ELSE ""
ValueInt64(a) == IF a.st = "known" THEN a.v ELSE 0

ObjectNull == [st |-> "null", type |-> StringNull, value |-> StringNull]
ObjectUnknown == [st |-> "unknown", type |-> StringNull, value |-> StringNull]

\* types.ObjectValueFrom(ctx, attributeTypes, dm) for an imageResourceDigestModel
ObjectValueFrom(dm) == [st |-> "known", type |-> dm.Type, value |-> dm.Value]

\* timeouts.Value: the create and read timeouts of the "timeouts" attribute
TimeoutsNull == [create |-> Int64Null, read |-> Int64Null]

\* The package's default operation timeout (defaultTimeout(), defined in
\* another file of the provider package).
defaultTimeout == 2

\* plan.Timeouts.Create(ctx, defaultTimeout()) / state.Timeouts.Read(...)
TimeoutOf(t, default) == IF t.st = "known" THEN t.v ELSE default

----------------------------------------------------------------------------
(* Values the configuration and the API draw from *)

Instances == {"i1", "i2"}

AlpineURL == "you_can_boot_anything_as_long_as_its_alpine"

Names == {"img-a", "img-b"}
Descriptions == {"desc"}
OSes == {"alpine"}
Versions == {"3.16"}
ProjectIds == {"proj-1"}
BlockSizes == {512, 4096}
SnapshotIds == {"snap-1"}
URLs == {"http://img", AlpineURL}
TimeoutValues == {1}

NoClient == "nil"
Clients == {"client-1"}

\* time.Time.String(): the text of an instant
TimeString(t) == "2023-01-0" \o ToString(t) \o " 00:00:00 +0000 UTC"

\* The identifier the API gives image number n
ImageId(n) == "image-" \o ToString(n)

----------------------------------------------------------------------------
(* imageResourceModel, and the plans the configuration can give *)

\* The value of an imageResourceModel with no attribute set
NullModel ==
    [BlockSize |-> Int64Null, Description |-> StringNull, Digest |-> ObjectNull,
     ID |-> StringNull, Name |-> StringNull, OS |-> StringNull,
     ProjectID |-> StringNull, Size |-> Int64Null,
     SourceSnapshotID |-> StringNull, SourceURL |-> StringNull,
     TimeCreated |-> StringNull, TimeModified |-> StringNull,
     Version |-> StringNull, Timeouts |-> TimeoutsNull]

OptString(S) == {StringNull} \cup {StringValue(s) : s \in S}
OptInt64(S) == {Int64Null} \cup {Int64Value(n) : n \in S}

\* A planned imageResourceModel: Required attributes are set, Optional ones
\* are set or null, Computed ones are unknown until Create fills them.
Plans ==
    [BlockSize : OptInt64(BlockSizes),
     Description : {StringValue(s) : s \in Descriptions},
     Digest : {ObjectUnknown},
     ID : {StringUnknown},
     Name : {StringValue(s) : s \in Names},
     OS : {StringValue(s) : s \in OSes},
     ProjectID : {StringValue(s) : s \in ProjectIds},
     Size : {Int64Unknown},
     SourceSnapshotID : OptString(SnapshotIds),
     SourceURL : OptString(URLs),
     TimeCreated : {StringUnknown},
     TimeModified : {StringUnknown},
     Version : {StringValue(s) : s \in Versions},
     Timeouts : {TimeoutsNull} \cup
                {[create |-> Int64Value(t), read |-> Int64Value(t)] : t \in TimeoutValues}]

\* The recorded state of one resource instance: none, or a model
Absent == [present |-> FALSE, m |-> NullModel]
Present(m) == [present |-> TRUE, m |-> m]

----------------------------------------------------------------------------
(* Diagnostics *)

ErrorDiagnostic(summary, detail) ==
    [severity |-> "error", summary |-> summary, detail |-> detail]

\* diag.Diagnostics.HasError
HasError(diags) == \E k \in 1..Len(diags) : diags[k].severity = "error"

----------------------------------------------------------------------------
(* Schema: the validators of source_snapshot_id and source_url *)

\* Variant: the validator taken for AtLeastOneOf, which accepts both set
ExactlyOneOfSource_AtLeastOne(config) ==
    IF IsNull(config.SourceURL) /\ IsNull(config.SourceSnapshotID)
    THEN <<ErrorDiagnostic("Invalid Attribute Combination",
                           <<"AtLeastOneOf", "source_url", "source_snapshot_id">>)>>
    ELSE <<>>

\* stringvalidator.ExactlyOneOf(source_url, source_snapshot_id), declared on
\* source_snapshot_id: it also runs when source_snapshot_id is null.
ExactlyOneOfSource(config) ==
    IF IsNull(config.SourceURL) = IsNull(config.SourceSnapshotID)
    THEN <<ErrorDiagnostic("Invalid Attribute Combination",
                           <<"ExactlyOneOf", "source_url", "source_snapshot_id">>)>>
    ELSE <<>>

\* stringvalidator.ConflictsWith(block_size), declared on source_snapshot_id
SnapshotConflictsWithBlockSize(config) ==
    IF ~IsNull(config.SourceSnapshotID) /\ ~IsNull(config.BlockSize)
    THEN <<ErrorDiagnostic("Invalid Attribute Combination",
                           <<"ConflictsWith", "source_snapshot_id", "block_size">>)>>
    ELSE <<>>

\* Variant: source_url declared without its AlsoRequires validator
URLAlsoRequiresBlockSize_Dropped(config) == <<>>

\* stringvalidator.AlsoRequires(block_size), declared on source_url
URLAlsoRequiresBlockSize(config) ==
    IF ~IsNull(config.SourceURL) /\ IsNull(config.BlockSize)
    THEN <<ErrorDiagnostic("Invalid Attribute Combination",
                           <<"AlsoRequires", "source_url", "block_size">>)>>
    ELSE <<>>

\* Variant: source_snapshot_id declared without its Validators list
ValidateConfig_NoSnapshotValidators(config) == URLAlsoRequiresBlockSize(config)

\* The diagnostics of validating a configuration against the schema
ValidateConfig(config) ==
    ExactlyOneOfSource(config) \o SnapshotConflictsWithBlockSize(config)
        \o URLAlsoRequiresBlockSize(config)

----------------------------------------------------------------------------
(* The Oxide API, as the handlers use it *)

NoImage ==
    [Id |-> "", Name |-> "", Description |-> "", Os |-> "", Version |-> "",
     ProjectId |-> "", BlockSize |-> 0, Size |-> 0, Url |-> "",
     TimeCreated |-> 0, TimeModified |-> 0,
     Digest |-> [Type |-> "", Value |-> ""]]

NoSource == [Id |-> "", Type |-> "", BlockSize |-> 0]

NoBody ==
    [Description |-> "", Name |-> "", Os |-> "", Version |-> "", Source |-> NoSource]

\* One call of the API client, as sent
ImageCreateCall(params) ==
    [method |-> "ImageCreate", ref |-> params.Project, body |-> params.Body]
ImageViewCall(params) ==
    [method |-> "ImageView", ref |-> params.Image, body |-> NoBody]

APIErrors == {"500 Internal Server Error"}
NotFound == "404 Not Found"

\* is404(err)
is404(err) == err = NotFound

\* client.ImageCreate(params): the API's answer to a creation request that it
\* numbers n. It fails with apiErr when apiErr is not "", else it stores and
\* returns the new image: the request's fields as sent, the block size of
\* the snapshot (snapBs) for a snapshot source, and the values it assigns.
ImageCreate(params, n, apiErr, snapBs) ==
    IF apiErr # ""
    THEN [err |-> apiErr, image |-> NoImage]
    ELSE [err |-> "",
          image |->
            [Id |-> ImageId(n),
             Name |-> params.Body.Name,
             Description |-> params.Body.Description,
             Os |-> params.Body.Os,
             Version |-> params.Body.Version,
             ProjectId |-> params.Project,
             BlockSize |-> IF params.Body.Source.Type = "snapshot"
                           THEN snapBs ELSE params.Body.Source.BlockSize,
             Size |-> 1024 * n,
             Url |-> IF params.Body.Source.Type = "url"
                     THEN params.Body.Source.Id ELSE "",
             TimeCreated |-> n,
             TimeModified |-> n,
             Digest |-> [Type |-> "sha256", Value |-> "digest-" \o ToString(n)]]]

\* client.ImageView(params): the image of that identifier, not-found when the
\* API holds none, or the failure apiErr.
ImageView(params, images, apiErr) ==
    IF apiErr # ""
    THEN [err |-> apiErr, image |-> NoImage]
    ELSE IF \E im \in images : im.Id = params.Image
         THEN [err |-> "", image |-> CHOOSE im \in images : im.Id = params.Image]
         ELSE [err |-> NotFound, image |-> NoImage]

----------------------------------------------------------------------------
(* Create *)

\* Variant: source_url is looked at before source_snapshot_id
ResolveSource_URLFirst(plan) ==
    IF ~IsNull(plan.SourceURL)
    THEN [ok |-> TRUE,
          is |-> [Id |-> ValueString(plan.SourceURL),
                  Type |-> IF plan.SourceURL = StringValue(AlpineURL)
                           THEN "you_can_boot_anything_as_long_as_its_alpine"
                           ELSE "url",
                  BlockSize |-> ValueInt64(plan.BlockSize)]]
    ELSE IF ~IsNull(plan.SourceSnapshotID)
    THEN [ok |-> TRUE,
          is |-> [Id |-> ValueString(plan.SourceSnapshotID), Type |-> "snapshot",
                  BlockSize |-> 0]]
    ELSE [ok |-> FALSE, is |-> NoSource]

\* Create, lines 224-242: the image source of the request. ok is FALSE when
\* neither source attribute is set.
ResolveSource(plan) ==
    IF ~IsNull(plan.SourceSnapshotID)
    THEN [ok |-> TRUE,
          is |-> [Id |-> ValueString(plan.SourceSnapshotID), Type |-> "snapshot",
                  BlockSize |-> 0]]
    ELSE IF ~IsNull(plan.SourceURL)
    THEN [ok |-> TRUE,
          is |-> [Id |-> ValueString(plan.SourceURL),
                  Type |-> IF plan.SourceURL = StringValue(AlpineURL)
                           THEN "you_can_boot_anything_as_long_as_its_alpine"
                           ELSE "url",
                  BlockSize |-> ValueInt64(plan.BlockSize)]]
    ELSE [ok |-> FALSE, is |-> NoSource]

\* Create, lines 214-222 and 243: the request
CreateParams(plan, is) ==
    [Project |-> ValueString(plan.ProjectID),
     Body |-> [Description |-> ValueString(plan.Description),
               Name |-> ValueString(plan.Name),
               Os |-> ValueString(plan.OS),
               Version |-> ValueString(plan.Version),
               Source |-> is]]

\* Create, lines 256-277: the plan with the response mapped into it
CreatedModel(plan, image) ==
    [plan EXCEPT
        !.ID = StringValue(image.Id),
        !.Size = Int64Value(image.Size),
        !.TimeCreated = StringValue(TimeString(image.TimeCreated)),
        !.TimeModified = StringValue(TimeString(image.TimeModified)),
        !.Version = StringValue(image.Version),
        !.Digest = ObjectValueFrom([Type |-> StringValue(image.Digest.Type),
                                    Value |-> StringValue(image.Digest.Value)])]

\* Create, lines 236-242: neither source attribute is set (the detail is
\* the message without its backquotes)
CreateNoSource ==
    [diags |-> <<ErrorDiagnostic("Error creating image",
                    <<"One of source_url or source_snapshot_id must be set">>)>>,
     State |-> Absent, calls |-> <<>>, err |-> "", expired |-> FALSE,
     image |-> NoImage]

\* Create, lines 246-252: the API call failed
CreateFailed(call, err, expired) ==
    [diags |-> <<ErrorDiagnostic("Error creating image", <<"API error: ", err>>)>>,
     State |-> Absent, calls |-> <<call>>, err |-> err, expired |-> expired,
     image |-> NoImage]

\* Create, lines 254-283: the API call succeeded
CreateSucceeded(plan, call, image, expired) ==
    [diags |-> <<>>, State |-> Present(CreatedModel(plan, image)),
     calls |-> <<call>>, err |-> "", expired |-> expired, image |-> image]

\* imageResource.Create on a plan. The state of the response starts empty. The
\* context is given the create timeout (lines 206-212), but the API call
\* (line 245) takes no context: expired says whether the call outlasted the
\* timeout, and nothing in the handler reads it.
CreateHandler(plan, n, apiErr, snapBs, latency) ==
    LET createTimeout == TimeoutOf(plan.Timeouts.create, defaultTimeout)
        src == ResolveSource(plan)
        params == CreateParams(plan, src.is)
        reply == ImageCreate(params, n, apiErr, snapBs)
        expired == latency > createTimeout
    IN  IF ~src.ok THEN CreateNoSource
        ELSE IF reply.err # ""
        THEN CreateFailed(ImageCreateCall(params), reply.err, expired)
        ELSE CreateSucceeded(plan, ImageCreateCall(params), reply.image, expired)

\* What the provider answers to a Create: the configuration is validated
\* against the schema first, and the handler runs only on a valid one.
CreateResponse(plan, n, apiErr, snapBs, latency) ==
    IF HasError(ValidateConfig(plan))
    THEN [diags |-> ValidateConfig(plan), State |-> Absent, calls |-> <<>>,
          err |-> "", expired |-> FALSE, image |-> NoImage]
    ELSE CreateHandler(plan, n, apiErr, snapBs, latency)

----------------------------------------------------------------------------
(* Read *)

\* Variant: project_id and source_url always taken from the image, also
\* when the image has none
ReadModel_ClearsMissing(prior, image) ==
    [prior EXCEPT
        !.BlockSize = Int64Value(image.BlockSize),
        !.Description = StringValue(image.Description),
        !.ID = StringValue(image.Id),
        !.Name = StringValue(image.Name),
        !.OS = StringValue(image.Os),
        !.Size = Int64Value(image.Size),
        !.TimeCreated = StringValue(TimeString(image.TimeCreated)),
        !.TimeModified = StringValue(TimeString(image.TimeModified)),
        !.Version = StringValue(image.Version),
        !.ProjectID = StringValue(image.ProjectId),
        !.SourceURL = StringValue(image.Url),
        !.Digest = ObjectValueFrom([Type |-> StringValue(image.Digest.Type),
                                    Value |-> StringValue(image.Digest.Value)])]

\* Variant: time_created taken from the time_modified the state held
ReadModel_StaleTimeCreated(prior, image) ==
    LET s1 == [prior EXCEPT
                !.BlockSize = Int64Value(image.BlockSize),
                !.Description = StringValue(image.Description),
                !.ID = StringValue(image.Id),
                !.Name = StringValue(image.Name),
                !.OS = StringValue(image.Os),
                !.Size = Int64Value(image.Size),
                !.TimeCreated = IF IsNull(prior.TimeModified)
                                THEN StringValue(TimeString(image.TimeCreated))
                                ELSE prior.TimeModified,
                !.TimeModified = StringValue(TimeString(image.TimeModified)),
                !.Version = StringValue(image.Version)]
        s2 == IF image.ProjectId # ""
              THEN [s1 EXCEPT !.ProjectID = StringValue(image.ProjectId)] ELSE s1
        s3 == IF image.Url # ""
              THEN [s2 EXCEPT !.SourceURL = StringValue(image.Url)] ELSE s2
    IN  [s3 EXCEPT
            !.Digest = ObjectValueFrom([Type |-> StringValue(image.Digest.Type),
                                        Value |-> StringValue(image.Digest.Value)])]

\* Read, lines 322-355: the prior state refreshed from the image
ReadModel(prior, image) ==
    LET s1 == [prior EXCEPT
                !.BlockSize = Int64Value(image.BlockSize),
                !.Description = StringValue(image.Description),
                !.ID = StringValue(image.Id),
                !.Name = StringValue(image.Name),
                !.OS = StringValue(image.Os),
                !.Size = Int64Value(image.Size),
                !.TimeCreated = StringValue(TimeString(image.TimeCreated)),
                !.TimeModified = StringValue(TimeString(image.TimeModified)),
                !.Version = StringValue(image.Version)]
        s2 == IF image.ProjectId # ""
              THEN [s1 EXCEPT !.ProjectID = StringValue(image.ProjectId)] ELSE s1
        s3 == IF image.Url # ""
              THEN [s2 EXCEPT !.SourceURL = StringValue(image.Url)] ELSE s2
    IN  [s3 EXCEPT
            !.Digest = ObjectValueFrom([Type |-> StringValue(image.Digest.Type),
                                        Value |-> StringValue(image.Digest.Value)])]

\* Variant: not-found reported like any other failure of the call
ReadNotFound_AsError(prior, call, err, expired) ==
    [diags |-> <<ErrorDiagnostic("Unable to read image:", <<"API error: ", err>>)>>,
     State |-> Present(prior), calls |-> <<call>>, err |-> err,
     expired |-> expired, image |-> NoImage]

\* Variant: not-found answered without removing the resource from the state
ReadNotFound_KeepsState(prior, call, err, expired) ==
    [diags |-> <<>>, State |-> Present(prior), calls |-> <<call>>, err |-> err,
     expired |-> expired, image |-> NoImage]

\* Read, lines 308-312: the API holds no such image
ReadNotFound(prior, call, err, expired) ==
    [diags |-> <<>>, State |-> Absent, calls |-> <<call>>, err |-> err,
     expired |-> expired, image |-> NoImage]

\* Variant: every failure of the call removes the resource from the state
ReadFailed_RemovesState(prior, call, err, expired) ==
    [diags |-> <<ErrorDiagnostic("Unable to read image:", <<"API error: ", err>>)>>,
     State |-> Absent, calls |-> <<call>>, err |-> err,
     expired |-> expired, image |-> NoImage]

\* Read, lines 313-317: the API call failed otherwise
ReadFailed(prior, call, err, expired) ==
    [diags |-> <<ErrorDiagnostic("Unable to read image:", <<"API error: ", err>>)>>,
     State |-> Present(prior), calls |-> <<call>>, err |-> err,
     expired |-> expired, image |-> NoImage]

\* Read, lines 320-361: the API call succeeded
ReadSucceeded(prior, call, image, expired) ==
    [diags |-> <<>>, State |-> Present(ReadModel(prior, image)),
     calls |-> <<call>>, err |-> "", expired |-> expired, image |-> image]

\* imageResource.Read on the prior state. The state of the response starts as the
\* prior state. As in Create, the API call (line 304) takes no context.
ReadHandler(prior, images, apiErr, latency) ==
    LET readTimeout == TimeoutOf(prior.Timeouts.read, defaultTimeout)
        params == [Image |-> ValueString(prior.ID)]
        reply == ImageView(params, images, apiErr)
        expired == latency > readTimeout
    IN  IF reply.err # ""
        THEN IF is404(reply.err)
             THEN ReadNotFound(prior, ImageViewCall(params), reply.err, expired)
             ELSE ReadFailed(prior, ImageViewCall(params), reply.err, expired)
        ELSE ReadSucceeded(prior, ImageViewCall(params), reply.image, expired)

----------------------------------------------------------------------------
(* Update and Delete *)

\* Update, lines 366-368: the diagnostic
UpdateNotSupported ==
    ErrorDiagnostic("Error updating image",
                    <<"the oxide API currently does not support updating images">>)

\* Variant: the handler also saves the plan into the state
UpdateHandler_SavesPlan(plan, prior) ==
    [diags |-> <<UpdateNotSupported>>,
     State |-> Present([plan EXCEPT !.ID = prior.ID]), calls |-> <<>>,
     err |-> "", expired |-> FALSE, image |-> NoImage]

\* Variant: only a changed name is refused, any other plan is saved
UpdateHandler_OnlyChecksName(plan, prior) ==
    IF plan.Name # prior.Name
    THEN [diags |-> <<UpdateNotSupported>>, State |-> Present(prior), calls |-> <<>>,
          err |-> "", expired |-> FALSE, image |-> NoImage]
    ELSE [diags |-> <<>>, State |-> Present([plan EXCEPT !.ID = prior.ID]),
          calls |-> <<>>, err |-> "", expired |-> FALSE, image |-> NoImage]

\* imageResource.Update: the state of the response starts as the prior
\* state, and the handler leaves it alone.
UpdateHandler(plan, prior) ==
    [diags |-> <<UpdateNotSupported>>, State |-> Present(prior), calls |-> <<>>,
     err |-> "", expired |-> FALSE, image |-> NoImage]

\* Delete, lines 373-375: the diagnostic
DeleteNotSupported ==
    ErrorDiagnostic("Error deleting image",
                    <<"the oxide API currently does not support deleting images">>)

\* Variant: a Delete of an image the API no longer holds reports no error
DeleteHandler_AbsentIsSuccess(prior) ==
    [diags |-> IF \E im \in remote : im.Id = ValueString(prior.ID)
               THEN <<DeleteNotSupported>> ELSE <<>>,
     State |-> Present(prior), calls |-> <<>>,
     err |-> "", expired |-> FALSE, image |-> NoImage]

\* Variant: the commented-out body (lines 379-396) restored, the call
\* succeeding
DeleteHandler_Enabled(prior) ==
    [diags |-> <<>>, State |-> Present(prior),
     calls |-> <<[method |-> "ImageDelete", ref |-> ValueString(prior.ID),
                  body |-> NoBody]>>,
     err |-> "", expired |-> FALSE, image |-> NoImage]

\* imageResource.Delete: the state of the response starts as the prior
\* state, and the handler leaves it alone. The call of ImageDelete is
\* commented out (lines 377-396).
DeleteHandler(prior) ==
    [diags |-> <<DeleteNotSupported>>, State |-> Present(prior), calls |-> <<>>,
     err |-> "", expired |-> FALSE, image |-> NoImage]

\* What the provider answers to a Delete: the state is removed when the
\* handler reports no error.
DeleteResponse(prior) ==
    LET r == DeleteHandler(prior)
    IN  IF HasError(r.diags) THEN r ELSE [r EXCEPT !.State = Absent]

----------------------------------------------------------------------------
(* ImportState *)

\* imageResource.ImportState, lines 78-80: ImportStatePassthroughID saves
\* the identifier of the request as the id of an otherwise empty state.
ImportHandler(externalID) ==
    [diags |-> <<>>, State |-> Present([NullModel EXCEPT !.ID = StringValue(externalID)]),
     calls |-> <<>>, err |-> "", expired |-> FALSE, image |-> NoImage]

----------------------------------------------------------------------------
(* The provider's configuration (package oxide, provider.go) *)

defaultHost == "http://127.0.0.1:12220"

\* A string of the provider block or of the environment: set or not
Unset == [set |-> FALSE, v |-> ""]
SetTo(v) == [set |-> TRUE, v |-> v]

\* What the provider block may hold for host and for token, and what the
\* environment variables may hold
ConfigHosts == {Unset, SetTo(""), SetTo("https://oxide.example")}
ConfigTokens == {Unset, SetTo(""), SetTo("token-cfg")}
EnvHosts == {Unset, SetTo(""), SetTo("http://env.example")}
EnvTestHosts == {Unset, SetTo("http://test.example")}
EnvTokens == {Unset, SetTo("token-env")}
EnvTestTokens == {Unset, SetTo("token-test")}

\* schema.MultiEnvDefaultFunc(ks, dv): the value of the first variable of ks
\* that is not empty, and dv when there is none
RECURSIVE MultiEnvDefaultFunc(_, _)
MultiEnvDefaultFunc(ks, dv) ==
    IF ks = <<>> THEN dv
    ELSE IF Head(ks).v # "" THEN Head(ks).v
    ELSE MultiEnvDefaultFunc(Tail(ks), dv)

\* d.Get of an Optional string with a DefaultFunc: the configured value,
\* and the default when the provider block does not set it
Get(configured, default) == IF configured.set THEN configured.v ELSE default

\* Provider(), lines 40-72: the ResourceData handed to ConfigureFunc
ResourceData(cfg, env) ==
    [host |-> Get(cfg.host,
                  MultiEnvDefaultFunc(<<env.OXIDE_HOST, env.OXIDE_TEST_HOST>>,
                                      defaultHost)),
     token |-> Get(cfg.token,
                   MultiEnvDefaultFunc(<<env.OXIDE_TOKEN, env.OXIDE_TEST_TOKEN>>, ""))]

NoMetaClient == [token |-> "", userAgent |-> "", host |-> ""]

\* oxideSDK.NewClient(token, userAgent, host): the client, or the error the
\* SDK reports
NewClient(token, userAgent, host, sdkErr) ==
    IF sdkErr # ""
    THEN [client |-> NoMetaClient, err |-> sdkErr]
    ELSE [client |-> [token |-> token, userAgent |-> userAgent, host |-> host],
          err |-> ""]

\* Variant: the token is checked before the host
newProviderMeta_TokenFirst(d, sdkErr) ==
    IF d.token = ""
    THEN [client |-> NoMetaClient, err |-> "token must not be empty"]
    ELSE IF d.host = ""
    THEN [client |-> NoMetaClient, err |-> "host must not be empty"]
    ELSE NewClient(d.token, "terraform-provider-oxide", d.host, sdkErr)

\* newProviderMeta, lines 74-86
newProviderMeta(d, sdkErr) ==
    IF d.host = ""
    THEN [client |-> NoMetaClient, err |-> "host must not be empty"]
    ELSE IF d.token = ""
    THEN [client |-> NoMetaClient, err |-> "token must not be empty"]
    ELSE NewClient(d.token, "terraform-provider-oxide", d.host, sdkErr)

\* The errors oxideSDK.NewClient may report
SDKErrors == {"invalid client configuration"}

\* Nothing configured the provider yet
NoMeta ==
    [cfg |-> [host |-> Unset, token |-> Unset],
     env |-> [OXIDE_HOST |-> Unset, OXIDE_TEST_HOST |-> Unset,
              OXIDE_TOKEN |-> Unset, OXIDE_TEST_TOKEN |-> Unset],
     d |-> [host |-> "", token |-> ""], configured |-> FALSE,
     client |-> NoMetaClient, err |-> ""]

----------------------------------------------------------------------------
(* The operations *)

\* A remote call returns before, at or after the default timeout.
Latencies == {1, 2, 3}

\* The record of an operation: what it was given and what it answered.
\* after tells what the operation came right after, on the same instance
\* and with the images unchanged: a Create, Read or Import that succeeded, or a
\* Read that found no image; stale is the state that Read dropped, kept by
\* the Create that succeeds after it.
OpRecord(op, i, plan, prior, r, after) ==
    [op |-> op, inst |-> i, plan |-> plan, prior |-> prior, diags |-> r.diags,
     calls |-> r.calls, err |-> r.err, expired |-> r.expired, image |-> r.image,
     after |-> after, stale |-> NullModel]

NoResponse ==
    [diags |-> <<>>, State |-> Absent, calls |-> <<>>, err |-> "", expired |-> FALSE,
     image |-> NoImage]

After(i) ==
    IF lastOp.inst = i /\ lastOp.op \in {"Create", "Read", "Import"}
       /\ ~HasError(lastOp.diags) /\ state[i].present
    THEN lastOp.op
    ELSE IF lastOp.inst = i /\ lastOp.op = "Read" /\ is404(lastOp.err)
            /\ ~state[i].present
    THEN "ReadNotFound"
    ELSE "other"

Stale(i) == IF After(i) = "ReadNotFound" THEN lastOp.prior.m ELSE NullModel

\* No handler is working for the instance
NoRequest == [op |-> "none", plan |-> NullModel, prior |-> Absent]

Init ==
    /\ client = NoClient
    /\ state = [i \in Instances |-> Absent]
    /\ remote = {}
    /\ nextId = 1
    /\ lastOp = OpRecord("Init", "none", NullModel, Absent, NoResponse, "other")
    /\ inflight = [i \in Instances |-> NoRequest]
    /\ meta = NoMeta

\* imageResource.Configure: keeps the client of the provider data, if any
Configure(providerData) ==
    /\ client = NoClient
    /\ client' = IF providerData = NoClient THEN client ELSE providerData
    /\ lastOp' = OpRecord("Configure", "none", NullModel, Absent, NoResponse, "other")
    /\ UNCHANGED <<state, remote, nextId, inflight, meta>>

\* Create of instance i, which has no recorded state, from a plan
Create(i) ==
    /\ client # NoClient
    /\ ~state[i].present
    /\ nextId <= MaxImages
    /\ \E plan \in Plans, apiErr \in APIErrors \cup {""}, snapBs \in BlockSizes,
          latency \in Latencies :
        LET r == CreateResponse(plan, nextId, apiErr, snapBs, latency)
            created == r.calls # <<>> /\ apiErr = ""
        IN  /\ state' = [state EXCEPT ![i] = r.State]
            /\ remote' = IF created THEN remote \cup {r.image} ELSE remote
            /\ nextId' = IF created THEN nextId + 1 ELSE nextId
            /\ lastOp' = [OpRecord("Create", i, plan, state[i], r, After(i))
                            EXCEPT !.stale = IF HasError(r.diags)
                                             THEN NullModel ELSE Stale(i)]
    /\ UNCHANGED <<client, inflight, meta>>

\* The Create handler of instance i given any plan, whether or not the
\* schema validators would let it through
CreateAnyPlan(i) ==
    /\ client # NoClient
    /\ ~state[i].present
    /\ nextId <= MaxImages
    /\ \E plan \in Plans, apiErr \in APIErrors \cup {""}, snapBs \in BlockSizes,
          latency \in Latencies :
        LET r == CreateHandler(plan, nextId, apiErr, snapBs, latency)
            created == r.calls # <<>> /\ apiErr = ""
        IN  /\ state' = [state EXCEPT ![i] = r.State]
            /\ remote' = IF created THEN remote \cup {r.image} ELSE remote
            /\ nextId' = IF created THEN nextId + 1 ELSE nextId
            /\ lastOp' = OpRecord("CreateHandler", i, plan, state[i], r, "other")
    /\ UNCHANGED <<client, inflight, meta>>

\* Read (refresh) of instance i, which has a recorded state
Read(i) ==
    /\ client # NoClient
    /\ state[i].present
    /\ \E apiErr \in APIErrors \cup {""}, latency \in Latencies :
        LET r == ReadHandler(state[i].m, remote, apiErr, latency)
        IN  /\ state' = [state EXCEPT ![i] = r.State]
            /\ lastOp' = OpRecord("Read", i, NullModel, state[i], r, After(i))
    /\ UNCHANGED <<client, remote, nextId, inflight, meta>>

\* Schema, lines 86-155: the attributes with the RequiresReplace plan
\* modifier
ImmutableAttributes ==
    {"Name", "ProjectID", "Description", "OS", "Version", "BlockSize",
     "SourceSnapshotID", "SourceURL"}

\* A value of an immutable attribute that no plan of Create holds
NewValue(attr) ==
    CASE attr = "Name" -> StringValue("img-c")
      [] attr = "ProjectID" -> StringValue("proj-2")
      [] attr = "Description" -> StringValue("desc-2")
      [] attr = "OS" -> StringValue("debian")
      [] attr = "Version" -> StringValue("3.17")
      [] attr = "BlockSize" -> Int64Value(2048)
      [] attr = "SourceSnapshotID" -> StringValue("snap-2")
      [] attr = "SourceURL" -> StringValue("http://img-2")

\* The plans an Update may be given: the valid plans, and the prior state
\* with one immutable attribute changed
UpdatePlans(prior) ==
    {plan \in Plans : ~HasError(ValidateConfig(plan))}
    \cup {[prior EXCEPT ![attr] = NewValue(attr)] : attr \in ImmutableAttributes}

\* Update of instance i, which has a recorded state, to a plan
Update(i) ==
    /\ client # NoClient
    /\ state[i].present
    /\ \E plan \in UpdatePlans(state[i].m) :
        /\ LET r == UpdateHandler(plan, state[i].m)
           IN  /\ state' = [state EXCEPT ![i] = r.State]
               /\ lastOp' = OpRecord("Update", i, plan, state[i], r, "other")
    /\ UNCHANGED <<client, remote, nextId, inflight, meta>>

\* Delete of instance i, which has a recorded state
Delete(i) ==
    /\ client # NoClient
    /\ state[i].present
    /\ LET r == DeleteResponse(state[i].m)
       IN  /\ state' = [state EXCEPT ![i] = r.State]
           /\ lastOp' = OpRecord("Delete", i, NullModel, state[i], r, "other")
    /\ UNCHANGED <<client, remote, nextId, inflight, meta>>

\* The identifiers an import may name
ImportIds == {ImageId(n) : n \in 1..MaxImages}

\* Import of instance i, which has no recorded state, by an identifier
Import(i) ==
    /\ client # NoClient
    /\ ~state[i].present
    /\ \E externalID \in ImportIds :
        LET r == ImportHandler(externalID)
        IN  /\ state' = [state EXCEPT ![i] = r.State]
            /\ lastOp' = OpRecord("Import", i, NullModel, state[i], r, "other")
    /\ UNCHANGED <<client, remote, nextId, inflight, meta>>

\* Terraform configures the provider: ConfigureFunc is given the
\* ResourceData of the provider block and the environment.
ConfigureProvider ==
    /\ \E h \in ConfigHosts, t \in ConfigTokens, eh \in EnvHosts, eth \in EnvTestHosts,
          et \in EnvTokens, ett \in EnvTestTokens, sdkErr \in SDKErrors \cup {""} :
        LET cfg == [host |-> h, token |-> t]
            env == [OXIDE_HOST |-> eh, OXIDE_TEST_HOST |-> eth,
                    OXIDE_TOKEN |-> et, OXIDE_TEST_TOKEN |-> ett]
            d == ResourceData(cfg, env)
            r == newProviderMeta(d, sdkErr)
        IN  meta' = [cfg |-> cfg, env |-> env, d |-> d, configured |-> TRUE,
                     client |-> r.client, err |-> r.err]
    /\ UNCHANGED <<client, state, remote, nextId, lastOp, inflight>>

----------------------------------------------------------------------------
(* What happens to the images outside the provider *)

EnvRecord(op) == OpRecord(op, "none", NullModel, Absent, NoResponse, "other")

\* An image is deleted out of band.
RemoteDelete(im) ==
    /\ im \in remote
    /\ remote' = remote \ {im}
    /\ lastOp' = EnvRecord("RemoteDelete")
    /\ UNCHANGED <<client, state, nextId, inflight, meta>>

\* The description of an image is changed out of band.
RemoteModify(im) ==
    /\ im \in remote
    /\ im.TimeModified = im.TimeCreated
    /\ remote' = (remote \ {im}) \cup
                 {[im EXCEPT !.Description = "changed",
                             !.TimeModified = im.TimeCreated + 1]}
    /\ lastOp' = EnvRecord("RemoteModify")
    /\ UNCHANGED <<client, state, nextId, inflight, meta>>

\* An image is promoted to its silo: it has no project any more.
RemotePromote(im) ==
    /\ im \in remote
    /\ im.ProjectId # ""
    /\ remote' = (remote \ {im}) \cup {[im EXCEPT !.ProjectId = ""]}
    /\ lastOp' = EnvRecord("RemotePromote")
    /\ UNCHANGED <<client, state, nextId, inflight, meta>>

\* An image is created outside the provider, by a request like those of
\* Create.
ExternalCreate ==
    /\ nextId <= MaxImages
    /\ \E plan \in Plans, snapBs \in BlockSizes :
        /\ ~HasError(ValidateConfig(plan))
        /\ remote' = remote \cup
              {ImageCreate(CreateParams(plan, ResolveSource(plan).is),
                           nextId, "", snapBs).image}
    /\ nextId' = nextId + 1
    /\ lastOp' = EnvRecord("ExternalCreate")
    /\ UNCHANGED <<client, state, inflight, meta>>

----------------------------------------------------------------------------
(* Handlers of different instances running at the same time *)

\* The plans of the runs with two instances: one valid plan for each kind
\* of source (snapshot, url, the built-in one), without timeouts
ConcPlans ==
    {plan \in Plans : /\ ~HasError(ValidateConfig(plan))
                       /\ plan.Timeouts = TimeoutsNull
                       /\ plan.Name = StringValue("img-a")
                       /\ plan.BlockSize \in {Int64Null, Int64Value(512)}}

\* The requests the framework may hand to a handler for an instance in
\* state st: Create for an instance without state, Read, Update and Delete
\* for one with a state. The request carries the plan and the state.
Requests(st) ==
    IF st.present
    THEN {[op |-> "Read", plan |-> NullModel, prior |-> st],
          [op |-> "Delete", plan |-> NullModel, prior |-> st]}
         \cup {[op |-> "Update", plan |-> plan, prior |-> st] :
                    plan \in {p \in ConcPlans : ~IsNull(p.SourceSnapshotID)}}
    ELSE {[op |-> "Create", plan |-> plan, prior |-> st] : plan \in ConcPlans}

\* What the handler of a request answers, given the images the API holds
\* and what the API answers
Handle(req, images, n, apiErr, snapBs) ==
    CASE req.op = "Create" -> CreateResponse(req.plan, n, apiErr, snapBs, 1)
      [] req.op = "Read" -> ReadHandler(req.prior.m, images, apiErr, 1)
      [] req.op = "Update" -> UpdateHandler(req.plan, req.prior.m)
      [] req.op = "Delete" -> DeleteResponse(req.prior.m)

\* Variant: the resource keeps one state for all its instances
StateAfter_Shared(i, r) == [j \in Instances |-> r.State]

\* resp.State of the response of instance i's handler: the framework
\* records it as the state of that instance and of no other.
StateAfter(i, r) == [state EXCEPT ![i] = r.State]

\* The framework calls a handler for instance i; the handler reads its
\* request (req.Plan.Get / req.State.Get).
Begin(i) ==
    /\ client # NoClient
    /\ inflight[i] = NoRequest
    /\ \E req \in Requests(state[i]) :
        inflight' = [inflight EXCEPT ![i] = req]
    /\ UNCHANGED <<client, state, remote, nextId, lastOp, meta>>

\* The handler of instance i calls the API, if it does, and returns its
\* response. The API creates no image beyond MaxImages. The record of the
\* operation tells whether the handler of another instance was at work.
Complete(i) ==
    /\ inflight[i] # NoRequest
    /\ \E apiErr \in APIErrors \cup {""}, snapBs \in BlockSizes :
        LET req == inflight[i]
            r == Handle(req, remote, nextId, apiErr, snapBs)
            created == req.op = "Create" /\ r.calls # <<>> /\ apiErr = ""
        IN  /\ created => nextId <= MaxImages
            /\ state' = StateAfter(i, r)
            /\ remote' = IF created THEN remote \cup {r.image} ELSE remote
            /\ nextId' = IF created THEN nextId + 1 ELSE nextId
            /\ lastOp' = OpRecord(req.op, i, req.plan, req.prior, r,
                                  IF \E j \in Instances \ {i} : inflight[j] # NoRequest
                                  THEN "Overlap" ELSE "other")
    /\ inflight' = [inflight EXCEPT ![i] = NoRequest]
    /\ UNCHANGED <<client, meta>>

----------------------------------------------------------------------------
(* The specification *)

\* The instances the provider manages in Spec
SpecInstances == {"i1"}

Next ==
    \/ \E pd \in Clients \cup {NoClient} : Configure(pd)
    \/ \E i \in SpecInstances : Create(i)
    \/ \E i \in SpecInstances : Read(i)
    \/ \E i \in SpecInstances : Update(i)
    \/ \E i \in SpecInstances : Delete(i)
    \/ \E im \in remote : RemoteDelete(im)
    \/ \E im \in remote : RemoteModify(im)
    \/ \E im \in remote : RemotePromote(im)

Spec == Init /\ [][Next]_vars

\* Adoption of images the provider did not create: they are created and
\* promoted outside, imported and refreshed.
NextImport ==
    \/ \E pd \in Clients \cup {NoClient} : Configure(pd)
    \/ ExternalCreate
    \/ \E im \in remote : RemotePromote(im)
    \/ \E i \in SpecInstances : Import(i)
    \/ \E i \in SpecInstances : Read(i)

SpecImport == Init /\ [][NextImport]_vars

\* The Create handler on its own, on every plan
NextSource ==
    \/ \E pd \in Clients \cup {NoClient} : Configure(pd)
    \/ \E i \in SpecInstances : CreateAnyPlan(i)

SpecSource == Init /\ [][NextSource]_vars

\* The configuration of the provider
NextProvider == ConfigureProvider

SpecProvider == Init /\ [][NextProvider]_vars

\* Two instances whose handlers overlap in time
NextConc ==
    \/ \E pd \in Clients \cup {NoClient} : Configure(pd)
    \/ \E i \in Instances : Begin(i)
    \/ \E i \in Instances : Complete(i)

SpecConc == Init /\ [][NextConc]_vars

----------------------------------------------------------------------------
(* Properties *)

\* The recorded state of the instance of the last operation
StateOfLast == state[lastOp.inst]

IsOperation == lastOp.op \in {"Create", "Read", "Update", "Delete"}

\* The last operation sent an ImageCreate request
SentImageCreate == \E k \in 1..Len(lastOp.calls) : lastOp.calls[k].method = "ImageCreate"

\* C1: a Create whose configuration sets neither source_snapshot_id nor
\* source_url, or sets both, ends with an error diagnostic, records no
\* state and sends no ImageCreate request.
C1_SourceUnionRejected ==
    (lastOp.op = "Create"
        /\ IsNull(lastOp.plan.SourceSnapshotID) = IsNull(lastOp.plan.SourceURL))
    => /\ HasError(lastOp.diags)
       /\ ~StateOfLast.present
       /\ ~SentImageCreate
       /\ lastOp.calls = <<>>

\* C1: a Create with both source attributes set was rejected.
C1_Witness ==
    /\ lastOp.op = "Create"
    /\ ~IsNull(lastOp.plan.SourceSnapshotID)
    /\ ~IsNull(lastOp.plan.SourceURL)
    /\ HasError(lastOp.diags)

\* C2: a Read whose ImageView call reports not-found removes the recorded
\* instance from the state and reports no error diagnostic.
C2_ReadNotFoundIsAbsence ==
    (lastOp.op = "Read" /\ is404(lastOp.err))
    => ~StateOfLast.present /\ ~HasError(lastOp.diags)

\* C2: a Read of a recorded instance got not-found from the API.
C2_Witness ==
    /\ lastOp.op = "Read"
    /\ is404(lastOp.err)
    /\ lastOp.prior.present

\* C3: a successful Read right after a successful Create, the image
\* unchanged in between, leaves block_size, name, description, os, version,
\* size, id, digest and the timestamps as Create recorded them.
C3_CreateThenReadRoundTrip ==
    (lastOp.op = "Read" /\ lastOp.after = "Create" /\ lastOp.err = ""
        /\ ~HasError(lastOp.diags))
    => /\ StateOfLast.present
       /\ StateOfLast.m.BlockSize = lastOp.prior.m.BlockSize
       /\ StateOfLast.m.Name = lastOp.prior.m.Name
       /\ StateOfLast.m.Description = lastOp.prior.m.Description
       /\ StateOfLast.m.OS = lastOp.prior.m.OS
       /\ StateOfLast.m.Version = lastOp.prior.m.Version
       /\ StateOfLast.m.Size = lastOp.prior.m.Size
       /\ StateOfLast.m.ID = lastOp.prior.m.ID
       /\ StateOfLast.m.Digest = lastOp.prior.m.Digest
       /\ StateOfLast.m.TimeCreated = lastOp.prior.m.TimeCreated
       /\ StateOfLast.m.TimeModified = lastOp.prior.m.TimeModified

\* C4: an operation that ends with an error diagnostic leaves the recorded
\* state as it was before the operation.
C4_ErrorLeavesState ==
    (IsOperation /\ HasError(lastOp.diags)) => StateOfLast = lastOp.prior

\* C4: a Read of a recorded instance failed with an error other than
\* not-found.
C4_Witness ==
    /\ lastOp.op = "Read"
    /\ lastOp.err \in APIErrors
    /\ HasError(lastOp.diags)
    /\ lastOp.prior.present

\* C5: a Create or Read whose timeout expired before the API call returned
\* ends with an error diagnostic and leaves the recorded state unchanged.
C5_ExpiredTimeoutIsError ==
    (lastOp.op \in {"Create", "Read"} /\ lastOp.expired)
    => HasError(lastOp.diags) /\ StateOfLast = lastOp.prior

\* C6: Update reports the not-supported error diagnostic and leaves the
\* state identical to the prior state.
C6_UpdateUnsupported ==
    lastOp.op = "Update"
    => /\ lastOp.diags = <<UpdateNotSupported>>
       /\ HasError(lastOp.diags)
       /\ lastOp.calls = <<>>
       /\ StateOfLast = lastOp.prior

\* C6: an Update was asked for a plan that differs from the prior state.
C6_Witness ==
    /\ lastOp.op = "Update"
    /\ lastOp.prior.present
    /\ lastOp.plan.Name # lastOp.prior.m.Name

\* The API holds no image of the identifier the last operation started from
PriorImageAbsent ==
    ~\E im \in remote : im.Id = ValueString(lastOp.prior.m.ID)

\* C7, as claimed: a Delete of a recorded identifier whose image the API no
\* longer holds reports no error diagnostic.
C7_DeleteAbsentNoError ==
    (lastOp.op = "Delete" /\ PriorImageAbsent) => ~HasError(lastOp.diags)

\* C7, amended: a Delete of a recorded identifier whose image the API no
\* longer holds reports the not-supported error diagnostic, as every Delete
\* of an image does, and keeps the recorded state.
C7_DeleteAbsentNotSupported ==
    (lastOp.op = "Delete" /\ PriorImageAbsent)
    => /\ lastOp.diags = <<DeleteNotSupported>>
       /\ StateOfLast = lastOp.prior
       /\ StateOfLast.present

\* C7: a Delete ran on a recorded identifier whose image is gone.
C7_Witness ==
    /\ lastOp.op = "Delete"
    /\ lastOp.prior.present
    /\ PriorImageAbsent

\* C8: every Delete reports the one not-supported error diagnostic, sends
\* no request, and leaves the recorded state and the images in place.
C8_DeleteNotSupported ==
    [][lastOp'.op = "Delete"
        => /\ lastOp'.diags = <<DeleteNotSupported>>
           /\ lastOp'.calls = <<>>
           /\ state' = state
           /\ state'[lastOp'.inst].present
           /\ remote' = remote]_vars

\* C8: a Delete ran on a recorded identifier whose image the API holds.
C8_Witness ==
    /\ lastOp.op = "Delete"
    /\ lastOp.prior.present
    /\ ~PriorImageAbsent

\* C9: a Create with source_url set and block_size unset ends with the
\* AlsoRequires validation error and sends no request; and no ImageCreate
\* request with a source other than a snapshot carries a block size that is
\* not the configured one.
C9_URLRequiresBlockSize ==
    /\ (lastOp.op = "Create" /\ ~IsNull(lastOp.plan.SourceURL)
            /\ IsNull(lastOp.plan.BlockSize))
       => /\ \E k \in 1..Len(lastOp.diags) :
                /\ lastOp.diags[k].severity = "error"
                /\ lastOp.diags[k].detail[1] = "AlsoRequires"
          /\ lastOp.calls = <<>>
          /\ ~StateOfLast.present
    /\ \A k \in 1..Len(lastOp.calls) :
            (lastOp.calls[k].method = "ImageCreate"
                /\ lastOp.calls[k].body.Source.Type # "snapshot")
            => /\ ~IsNull(lastOp.plan.BlockSize)
               /\ lastOp.calls[k].body.Source.BlockSize = lastOp.plan.BlockSize.v
               /\ lastOp.calls[k].body.Source.BlockSize # 0

\* C9: a Create with only source_url set, and no block_size, was rejected.
C9_Witness ==
    /\ lastOp.op = "Create"
    /\ ~IsNull(lastOp.plan.SourceURL)
    /\ IsNull(lastOp.plan.SourceSnapshotID)
    /\ IsNull(lastOp.plan.BlockSize)
    /\ HasError(lastOp.diags)

\* C10: after a successful Create, id, size, digest, time_created,
\* time_modified, version, block_size, name, description, os and project_id
\* of the recorded state equal the values of the image the API returned.
C10_CreateMapsEveryField ==
    (lastOp.op = "Create" /\ ~HasError(lastOp.diags))
    => /\ StateOfLast.present
       /\ StateOfLast.m.ID = StringValue(lastOp.image.Id)
       /\ StateOfLast.m.Size = Int64Value(lastOp.image.Size)
       /\ StateOfLast.m.Digest.type = StringValue(lastOp.image.Digest.Type)
       /\ StateOfLast.m.Digest.value = StringValue(lastOp.image.Digest.Value)
       /\ StateOfLast.m.TimeCreated = StringValue(TimeString(lastOp.image.TimeCreated))
       /\ StateOfLast.m.TimeModified = StringValue(TimeString(lastOp.image.TimeModified))
       /\ StateOfLast.m.Version = StringValue(lastOp.image.Version)
       /\ StateOfLast.m.BlockSize = Int64Value(lastOp.image.BlockSize)
       /\ StateOfLast.m.Name = StringValue(lastOp.image.Name)
       /\ StateOfLast.m.Description = StringValue(lastOp.image.Description)
       /\ StateOfLast.m.OS = StringValue(lastOp.image.Os)
       /\ StateOfLast.m.ProjectID = StringValue(lastOp.image.ProjectId)

\* The last operation is a Read whose ImageView call succeeded
ReadOk == lastOp.op = "Read" /\ lastOp.err = "" /\ ~HasError(lastOp.diags)

\* C11: on a successful Read, an image without project id leaves project_id
\* as it was, an image without url leaves source_url as it was, and
\* block_size, description, id, name, os, size, the timestamps, version and
\* digest are the values of the image.
C11_ReadKeepsMissingOverwritesRest ==
    ReadOk
    => /\ StateOfLast.present
       /\ lastOp.image.ProjectId = ""
            => StateOfLast.m.ProjectID = lastOp.prior.m.ProjectID
       /\ lastOp.image.Url = ""
            => StateOfLast.m.SourceURL = lastOp.prior.m.SourceURL
       /\ StateOfLast.m.BlockSize = Int64Value(lastOp.image.BlockSize)
       /\ StateOfLast.m.Description = StringValue(lastOp.image.Description)
       /\ StateOfLast.m.ID = StringValue(lastOp.image.Id)
       /\ StateOfLast.m.Name = StringValue(lastOp.image.Name)
       /\ StateOfLast.m.OS = StringValue(lastOp.image.Os)
       /\ StateOfLast.m.Size = Int64Value(lastOp.image.Size)
       /\ StateOfLast.m.TimeCreated = StringValue(TimeString(lastOp.image.TimeCreated))
       /\ StateOfLast.m.TimeModified = StringValue(TimeString(lastOp.image.TimeModified))
       /\ StateOfLast.m.Version = StringValue(lastOp.image.Version)
       /\ StateOfLast.m.Digest.type = StringValue(lastOp.image.Digest.Type)
       /\ StateOfLast.m.Digest.value = StringValue(lastOp.image.Digest.Value)

\* C11: a Read succeeded on an image with neither project id nor url, the
\* prior state holding both a project_id and a source_url, and overwrote a
\* description that had changed.
C11_Witness ==
    /\ ReadOk
    /\ lastOp.image.ProjectId = ""
    /\ lastOp.image.Url = ""
    /\ ~IsNull(lastOp.prior.m.ProjectID)
    /\ ~IsNull(lastOp.prior.m.SourceURL)
    /\ StateOfLast.m.Description # lastOp.prior.m.Description

\* C12: when the image of a recorded instance was deleted out of band, the
\* next Read that reaches the API removes the instance from the state
\* without error; and a Create that follows, its configuration valid and
\* the API call succeeding, reports no error and records the identifier of
\* an image the API holds, which is not the stale one. A Create that follows
\* fails only on an invalid configuration or a failure of the API call.
C12_ResurrectionAfterDeletion ==
    /\ (lastOp.op = "Read" /\ PriorImageAbsent /\ lastOp.err \notin APIErrors)
       => ~StateOfLast.present /\ ~HasError(lastOp.diags)
    /\ (lastOp.op = "Create" /\ lastOp.after = "ReadNotFound")
       => /\ (lastOp.err = "" /\ ~HasError(ValidateConfig(lastOp.plan)))
                => ~HasError(lastOp.diags)
          /\ HasError(lastOp.diags)
                => (lastOp.err \in APIErrors \/ HasError(ValidateConfig(lastOp.plan)))
          /\ ~HasError(lastOp.diags)
                => /\ StateOfLast.present
                   /\ \E im \in remote : im.Id = ValueString(StateOfLast.m.ID)
                   /\ StateOfLast.m.ID # lastOp.stale.ID

\* C12: after a Read dropped an instance whose image was gone, a Create
\* with the configuration the instance was created from succeeded.
C12_Witness ==
    /\ lastOp.op = "Create"
    /\ lastOp.after = "ReadNotFound"
    /\ ~HasError(lastOp.diags)
    /\ ~IsNull(lastOp.stale.ID)
    /\ lastOp.plan.Name = lastOp.stale.Name
    /\ lastOp.plan.SourceSnapshotID = lastOp.stale.SourceSnapshotID
    /\ lastOp.plan.SourceURL = lastOp.stale.SourceURL
    /\ lastOp.plan.Timeouts = lastOp.stale.Timeouts
    /\ StateOfLast.present

\* Two models agree on every attribute of the image (all but timeouts)
SameImageAttributes(m1, m2) ==
    [m1 EXCEPT !.Timeouts = TimeoutsNull] = [m2 EXCEPT !.Timeouts = TimeoutsNull]

\* C13: the Read that follows an Import of an image the API holds records
\* the imported identifier as id, and the state it records is, on every
\* attribute of the image, the state that a Create of that image followed by
\* a Read holds, whichever valid configuration the image was created from.
C13_ImportEqualsCreateThenRead ==
    (ReadOk /\ lastOp.after = "Import")
    => /\ StateOfLast.present
       /\ StateOfLast.m.ID = lastOp.prior.m.ID
       /\ ~IsNull(StateOfLast.m.ProjectID)
       /\ \A plan \in Plans, n \in 1..MaxImages, snapBs \in BlockSizes :
            (/\ ~HasError(ValidateConfig(plan))
             /\ ImageCreate(CreateParams(plan, ResolveSource(plan).is),
                            n, "", snapBs).image = lastOp.image)
            => SameImageAttributes(StateOfLast.m,
                    ReadModel(CreatedModel(plan, lastOp.image), lastOp.image))


\* C14: a Read leaves the images as they are and sends nothing but ImageView
\* requests, and a successful Read that comes right after a successful Read
\* of the same instance, with the images unchanged in between, leaves the
\* recorded state as the first Read left it.
C14_ReadSideEffectFreeIdempotent ==
    [][lastOp'.op = "Read"
       => /\ remote' = remote
          /\ \A k \in 1..Len(lastOp'.calls) : lastOp'.calls[k].method = "ImageView"
          /\ (lastOp'.after = "Read" /\ lastOp'.err = "" /\ ~HasError(lastOp'.diags))
             => state' = state]_vars

\* A second successful Read in a row, of an image that was modified outside
\* the provider before the first one
C14_Witness ==
    /\ ReadOk
    /\ lastOp.after = "Read"
    /\ Len(lastOp.calls) = 1
    /\ StateOfLast.present
    /\ StateOfLast.m.Description = StringValue("changed")
    /\ lastOp.image \in remote


\* The immutable attributes on which the plan of the last operation differs
\* from the state it was given
ChangedAttributes == {attr \in ImmutableAttributes : lastOp.plan[attr] # lastOp.prior.m[attr]}

\* C15: an Update whose plan differs from the prior state on any immutable
\* attribute (name, project_id, description, os, version, block_size,
\* source_snapshot_id, source_url) reports an error and sends no request.
C15_UpdateOfImmutableRejected ==
    (lastOp.op = "Update" /\ ChangedAttributes # {})
    => /\ HasError(lastOp.diags)
       /\ lastOp.calls = <<>>

\* An Update whose plan changes os and nothing else
C15_Witness ==
    /\ lastOp.op = "Update"
    /\ ChangedAttributes = {"OS"}
    /\ lastOp.plan.OS = StringValue("debian")
    /\ HasError(lastOp.diags)
    /\ lastOp.calls = <<>>


\* C16: with the handlers of different instances overlapping in any order,
\* the client is not changed once Configure has set it, the recorded state
\* of an instance changes only when its own handler returns, the state that
\* handler was given is still the recorded state of the instance when it
\* returns, and the state it records is the one the operation produces from
\* the instance's own state, its plan and the API's answer.
C16_InstancesIndependent ==
    [][/\ client # NoClient => client' = client
       /\ \A j \in Instances :
            IF inflight[j] # NoRequest /\ inflight'[j] = NoRequest
            THEN /\ inflight[j].prior = state[j]
                 /\ \E apiErr \in APIErrors \cup {""}, snapBs \in BlockSizes :
                      state'[j] = Handle([inflight[j] EXCEPT !.prior = state[j]],
                                         remote, nextId, apiErr, snapBs).State
            ELSE state'[j] = state[j]]_vars

\* A Create of one instance has returned its state while the handler of the
\* other instance, which has a state of its own, was at work
C16_Witness ==
    /\ lastOp.op = "Create"
    /\ lastOp.after = "Overlap"
    /\ ~HasError(lastOp.diags)
    /\ StateOfLast.present
    /\ \E j \in Instances \ {lastOp.inst} :
         /\ inflight[j] # NoRequest
         /\ state[j].present
         /\ state[j].m.ID # StateOfLast.m.ID


\* The image source of the one request the last operation sent
SourceSent == lastOp.calls[1].body.Source

\* C17: the Create handler resolves the image source from the plan in a
\* fixed order. With source_snapshot_id set (source_url set or not) it sends
\* one ImageCreate request whose source has type snapshot, that id and no
\* block size, and reports no error of its own; otherwise, with source_url
\* set, the source has the url as id, the plan's block_size, and type url,
\* or the built-in type when the url is the literal
\* you_can_boot_anything_as_long_as_its_alpine; with neither set it reports
\* an error and sends no request.
C17_SourceResolutionPrecedence ==
    lastOp.op = "CreateHandler"
    => LET plan == lastOp.plan
       IN  IF ~IsNull(plan.SourceSnapshotID)
           THEN /\ Len(lastOp.calls) = 1
                /\ lastOp.calls[1].method = "ImageCreate"
                /\ SourceSent = [Id |-> plan.SourceSnapshotID.v, Type |-> "snapshot",
                                 BlockSize |-> 0]
                /\ lastOp.err = "" => ~HasError(lastOp.diags)
           ELSE IF ~IsNull(plan.SourceURL)
           THEN /\ Len(lastOp.calls) = 1
                /\ lastOp.calls[1].method = "ImageCreate"
                /\ SourceSent.Id = plan.SourceURL.v
                /\ SourceSent.BlockSize = (IF IsNull(plan.BlockSize) THEN 0
                                           ELSE plan.BlockSize.v)
                /\ SourceSent.Type =
                     (IF plan.SourceURL.v = "you_can_boot_anything_as_long_as_its_alpine"
                      THEN "you_can_boot_anything_as_long_as_its_alpine" ELSE "url")
                /\ lastOp.err = "" => ~HasError(lastOp.diags)
           ELSE /\ HasError(lastOp.diags)
                /\ lastOp.calls = <<>>
                /\ ~StateOfLast.present

\* The handler was given both source attributes and a block size, sent a
\* snapshot source and recorded the image
C17_Witness ==
    /\ lastOp.op = "CreateHandler"
    /\ ~IsNull(lastOp.plan.SourceSnapshotID)
    /\ ~IsNull(lastOp.plan.SourceURL)
    /\ ~IsNull(lastOp.plan.BlockSize)
    /\ Len(lastOp.calls) = 1
    /\ SourceSent.Type = "snapshot"
    /\ ~HasError(lastOp.diags)
    /\ StateOfLast.present


\* C18: configuring the provider with an empty host ends with the error
\* "host must not be empty", with a host and an empty token it ends with the
\* error "token must not be empty", and in both cases there is no client;
\* whenever there is a client, host and token are both non-empty and are
\* the ones the client holds.
C18_ClientNeedsHostAndToken ==
    meta.configured
    => /\ meta.d.host = ""
            => meta.err = "host must not be empty" /\ meta.client = NoMetaClient
       /\ (meta.d.host # "" /\ meta.d.token = "")
            => meta.err = "token must not be empty" /\ meta.client = NoMetaClient
       /\ meta.client # NoMetaClient
            => /\ meta.d.host # "" /\ meta.d.token # "" /\ meta.err = ""
               /\ meta.client.host = meta.d.host
               /\ meta.client.token = meta.d.token

\* The provider was configured with neither a host nor a token: the host
\* is reported, not the token
C18_Witness ==
    /\ meta.configured
    /\ meta.d.host = ""
    /\ meta.d.token = ""
    /\ meta.err = "host must not be empty"
    /\ meta.client = NoMetaClient

====
